---------------------------- MODULE Spec2Model ----------------------------
(***************************************************************************)
(* Model of the theming engine in src/ui/theme/theme.py: the palette and   *)
(* metric tables (class attributes of AppColors, AppDimensions, AppFonts), *)
(* the style resolver (AppStyles), the icon renderer (IconManager) and the *)
(* widget factory (ThemeManager).                                          *)
(*                                                                         *)
(* A style sheet is the sequence of its rules in source order.  A rule has *)
(* a pseudo-state ("" for none) and a declaration block, a function from   *)
(* property names to values.  f-string interpolation of a colour or a      *)
(* dimension is modelled by placing the value read from the table in the   *)
(* declaration; "Npx solid C" is the record Border(N, C); "Npx" is N; a      *)
(* padding shorthand is the tuple of its interpolated parts.                *)
(***************************************************************************)
EXTENDS Integers, Sequences, FiniteSets, TLC

VARIABLES
    AppColors,      \* class attributes of AppColors (mutable in Python)
    AppDimensions,  \* class attributes of AppDimensions
    AppFonts,       \* class attributes of AppFonts
    app,            \* the host's QApplication: instance, primary screen, density
    Config,         \* class attributes of Config
    widget,         \* the live control the caller holds, or NoWidget
    lastCall,       \* the most recent direct call: function, arguments, and the
                    \* result it returned or the exception it raised
    raised,         \* the exception the most recent engine call let escape, or None
    invoked,        \* the most recent click: the callback the clicked button was
                    \* created with, and the callbacks the click ran
    thread,         \* per thread of the application: the resolver call it is in,
                    \* its position in it, its locals and what it returned
    panel           \* the buttons the host has placed in its quick-baud row, in
                    \* creation order, the one clicked last and the calls that
                    \* click made

\* the engine's own state: its class-level tables
tables == <<AppColors, AppDimensions, AppFonts, Config>>

vars == <<tables, app, widget, lastCall, raised, invoked, thread, panel>>

None == "None"

-----------------------------------------------------------------------------
(* Palette and metric tables *)

AppColorsInit ==
    [ BACKGROUND_LIGHT    |-> "#f0f0f0",
      BACKGROUND_MENU     |-> "#f0f0f0",
      BACKGROUND_TOOLTIP  |-> "#ffffe1",
      TEXT_MENU           |-> "#000000",
      TEXT_TOOLTIP        |-> "#000000",
      SELECTION_TEXT      |-> "#ffffff",
      SELECTION_MENU      |-> "#3399ff",
      BACKGROUND_DISABLED |-> "#f4f7fc",
      BORDER_DEFAULT      |-> "#a0a0a0",
      BORDER_FOCUS        |-> "#0078d7",
      BORDER_PRESSED      |-> "#005a9e",
      BORDER_DISABLED     |-> "#d0d0d0",
      BORDER_LIGHT        |-> "#e3e3e3",
      BUTTON_DEFAULT      |-> "#f0f0f0",
      BUTTON_HOVER        |-> "#e5f1fb",
      BUTTON_PRESSED      |-> "#cce4f7",
      TEXT_DEFAULT        |-> "#000000",
      TEXT_DISABLED       |-> "#6d6d6d",
      TEXT_WHITE          |-> "#ffffff",
      ICON_DEFAULT        |-> "#000000",
      ICON_HOVER          |-> "#0078d7",
      ICON_PRESSED        |-> "#005a9e",
      ICON_DISABLED       |-> "#6d6d6d",
      ACCENT_BLUE         |-> "#0078d7",
      HOT_TRACKING        |-> "#0066cc",
      SUCCESS_PRIMARY     |-> "#107c10",
      SUCCESS_BACKGROUND  |-> "#dff6dd",
      SUCCESS_BORDER      |-> "#0e5a0e",
      WARNING_PRIMARY     |-> "#ffb900",
      WARNING_BACKGROUND  |-> "#fff4ce",
      WARNING_BORDER      |-> "#d39400",
      ERROR_PRIMARY       |-> "#e81123",
      ERROR_BACKGROUND    |-> "#fde7e9",
      ERROR_BORDER        |-> "#b4161c",
      INFO_PRIMARY        |-> "#0078d7",
      INFO_BACKGROUND     |-> "#e5f1fb",
      INFO_BORDER         |-> "#005a9e" ]

AppFontsInit ==
    [ DEFAULT_FAMILY |-> "Segoe UI",
      DEFAULT_SIZE   |-> "9pt",
      SMALL_SIZE     |-> "8pt",
      ITALIC_STYLE   |-> "italic" ]

AppDimensionsInit ==
    [ BUTTON_WIDTH_STANDARD   |-> 75,
      HEIGHT_SEPARATOR        |-> 1,
      WIDTH_BUTTON_QUICK_BAUD |-> 50,
      BUTTON_HEIGHT_STANDARD  |-> 23,
      BUTTON_HEIGHT_SMALL     |-> 21,
      BUTTON_HEIGHT_MEDIUM    |-> 23,
      BUTTON_HEIGHT_LARGE     |-> 28,
      ICON_SIZE_SMALL         |-> 16,
      ICON_SIZE_MEDIUM        |-> 20,
      ICON_SIZE_LARGE         |-> 24,
      ICON_SIZE_XLARGE        |-> 32,
      SPACING_SMALL           |-> 4,
      PADDING_SMALL           |-> "3px",
      PADDING_MEDIUM          |-> "5px",
      PADDING_LARGE           |-> "7px",
      PADDING_BUTTON_STANDARD |-> "3px 8px",
      PADDING_BUTTON_LARGE    |-> "5px 12px",
      PADDING_BUTTON_COMPACT  |-> "2px 6px",
      BORDER_WIDTH_STANDARD   |-> 1,
      BORDER_WIDTH_THICK      |-> 2,
      BORDER_RADIUS_STANDARD  |-> 0,
      BORDER_RADIUS_MODERN    |-> 2,
      OUTPUT_PORT_MIN_COUNT   |-> 1 ]

\* class Config
ConfigInit ==
    [ BAUD_RATES       |-> <<"1200", "2400", "4800", "9600", "14400", "19200",
                             "38400", "57600", "115200", "230400", "460800", "921600">>,
      QUICK_BAUD_RATES |-> <<"9600", "19200", "38400", "57600", "115200">>,
      DEFAULT_BAUD     |-> "115200",
      MIN_OUTPUT_PORTS |-> AppDimensionsInit.OUTPUT_PORT_MIN_COUNT ]

-----------------------------------------------------------------------------
(* Style sheets *)

Rule(sel, pseudo, decl) == [sel |-> sel, pseudo |-> pseudo, decl |-> decl]

Border(w, c) == [width |-> w, style |-> "solid", color |-> c]

\* dict.get(key, default)
Get(d, key, default) == IF key \in DOMAIN d THEN d[key] ELSE default


\* AppStyles.button: the rules of base_style, in source order
button_base ==
    << Rule("QPushButton", "",
            ("background-color" :> AppColors.BUTTON_DEFAULT)
         @@ ("color" :> AppColors.TEXT_DEFAULT)
         @@ ("padding" :> <<AppDimensions.PADDING_BUTTON_STANDARD>>)
         @@ ("border" :> Border(AppDimensions.BORDER_WIDTH_STANDARD, AppColors.BORDER_DEFAULT))
         @@ ("font-family" :> AppFonts.DEFAULT_FAMILY)
         @@ ("font-size" :> AppFonts.DEFAULT_SIZE)
         @@ ("min-width" :> AppDimensions.BUTTON_WIDTH_STANDARD)
         @@ ("min-height" :> AppDimensions.BUTTON_HEIGHT_STANDARD)
         @@ ("border-radius" :> AppDimensions.BORDER_RADIUS_STANDARD)),
       Rule("QPushButton", "hover",
            ("background-color" :> AppColors.BUTTON_HOVER)
         @@ ("border" :> Border(AppDimensions.BORDER_WIDTH_STANDARD, AppColors.BORDER_FOCUS))),
       Rule("QPushButton", "pressed",
            ("background-color" :> AppColors.BUTTON_PRESSED)
         @@ ("border" :> Border(AppDimensions.BORDER_WIDTH_STANDARD, AppColors.BORDER_PRESSED))),
       Rule("QPushButton", "focus",
            ("border" :> Border(AppDimensions.BORDER_WIDTH_THICK, AppColors.BORDER_FOCUS))
         @@ ("outline" :> "none")),
       Rule("QPushButton", "disabled",
            ("background-color" :> AppColors.BACKGROUND_DISABLED)
         @@ ("color" :> AppColors.TEXT_DISABLED)
         @@ ("border" :> Border(AppDimensions.BORDER_WIDTH_STANDARD, AppColors.BORDER_DISABLED))) >>

\* a button() whose last branch is a plain else: any other string is styled as danger
button_variant_else_danger(style_variant) ==
    IF style_variant = "primary" THEN
        << Rule("QPushButton", "",
                ("background-color" :> AppColors.ACCENT_BLUE)
             @@ ("color" :> AppColors.TEXT_WHITE)
             @@ ("border" :> Border(AppDimensions.BORDER_WIDTH_STANDARD, AppColors.ACCENT_BLUE))) >>
    ELSE IF style_variant \in {"default", "success"} THEN << >>
    ELSE
        << Rule("QPushButton", "",
                ("background-color" :> AppColors.ERROR_PRIMARY)
             @@ ("color" :> AppColors.TEXT_WHITE)
             @@ ("border" :> Border(AppDimensions.BORDER_WIDTH_STANDARD, AppColors.ERROR_BORDER))) >>

\* variant rules in which every palette variant has a pressed rule, after its
\* hover rule
button_variant_pressedtoo(style_variant) ==
    LET rules(normal, border, hover, pressed) ==
            << Rule("QPushButton", "",
                    ("background-color" :> normal)
                 @@ ("color" :> AppColors.TEXT_WHITE)
                 @@ ("border" :> Border(AppDimensions.BORDER_WIDTH_STANDARD, border))),
               Rule("QPushButton", "hover",
                    ("background-color" :> hover)
                 @@ ("border" :> Border(AppDimensions.BORDER_WIDTH_STANDARD, hover))),
               Rule("QPushButton", "pressed",
                    ("background-color" :> pressed)
                 @@ ("border" :> Border(AppDimensions.BORDER_WIDTH_STANDARD, pressed))) >>
    IN  IF style_variant = "primary"
        THEN rules(AppColors.ACCENT_BLUE, AppColors.ACCENT_BLUE,
                   AppColors.HOT_TRACKING, AppColors.BORDER_PRESSED)
        ELSE IF style_variant = "success"
        THEN rules(AppColors.SUCCESS_PRIMARY, AppColors.SUCCESS_BORDER,
                   AppColors.SUCCESS_BORDER, AppColors.SUCCESS_BORDER)
        ELSE IF style_variant = "danger"
        THEN rules(AppColors.ERROR_PRIMARY, AppColors.ERROR_BORDER,
                   AppColors.ERROR_BORDER, AppColors.ERROR_BORDER)
        ELSE << >>

\* AppStyles.button: the rules appended for the variant (none for any other string)
button_variant(style_variant) ==
    IF style_variant = "primary" THEN
        << Rule("QPushButton", "",
                ("background-color" :> AppColors.ACCENT_BLUE)
             @@ ("color" :> AppColors.TEXT_WHITE)
             @@ ("border" :> Border(AppDimensions.BORDER_WIDTH_STANDARD, AppColors.ACCENT_BLUE))),
           Rule("QPushButton", "hover",
                ("background-color" :> AppColors.HOT_TRACKING)
             @@ ("border" :> Border(AppDimensions.BORDER_WIDTH_STANDARD, AppColors.HOT_TRACKING))),
           Rule("QPushButton", "pressed",
                ("background-color" :> AppColors.BORDER_PRESSED)
             @@ ("border" :> Border(AppDimensions.BORDER_WIDTH_STANDARD, AppColors.BORDER_PRESSED))) >>
    ELSE IF style_variant = "success" THEN
        << Rule("QPushButton", "",
                ("background-color" :> AppColors.SUCCESS_PRIMARY)
             @@ ("color" :> AppColors.TEXT_WHITE)
             @@ ("border" :> Border(AppDimensions.BORDER_WIDTH_STANDARD, AppColors.SUCCESS_BORDER))),
           Rule("QPushButton", "hover",
                ("background-color" :> AppColors.SUCCESS_BORDER)
             @@ ("border" :> Border(AppDimensions.BORDER_WIDTH_STANDARD, AppColors.SUCCESS_BORDER))) >>
    ELSE IF style_variant = "danger" THEN
        << Rule("QPushButton", "",
                ("background-color" :> AppColors.ERROR_PRIMARY)
             @@ ("color" :> AppColors.TEXT_WHITE)
             @@ ("border" :> Border(AppDimensions.BORDER_WIDTH_STANDARD, AppColors.ERROR_BORDER))),
           Rule("QPushButton", "hover",
                ("background-color" :> AppColors.ERROR_BORDER)
             @@ ("border" :> Border(AppDimensions.BORDER_WIDTH_STANDARD, AppColors.ERROR_BORDER))) >>
    ELSE << >>

\* a button() that puts the variant rules before the base rules
button_prepend(style_variant) == button_variant(style_variant) \o button_base

\* AppStyles.button(style_variant): base_style += variant rules
button(style_variant) == button_base \o button_variant(style_variant)

\* AppStyles.button_large()
button_large ==
    << Rule("QPushButton", "",
            ("background-color" :> AppColors.BUTTON_DEFAULT)
         @@ ("color" :> AppColors.TEXT_DEFAULT)
         @@ ("padding" :> <<AppDimensions.PADDING_BUTTON_LARGE>>)
         @@ ("border" :> Border(AppDimensions.BORDER_WIDTH_STANDARD, AppColors.BORDER_DEFAULT))
         @@ ("font-family" :> AppFonts.DEFAULT_FAMILY)
         @@ ("font-size" :> AppFonts.DEFAULT_SIZE)
         @@ ("min-width" :> AppDimensions.BUTTON_WIDTH_STANDARD + 20)
         @@ ("min-height" :> AppDimensions.BUTTON_HEIGHT_LARGE)
         @@ ("border-radius" :> AppDimensions.BORDER_RADIUS_STANDARD)),
       Rule("QPushButton", "hover",
            ("background-color" :> AppColors.BUTTON_HOVER)
         @@ ("border" :> Border(AppDimensions.BORDER_WIDTH_STANDARD, AppColors.BORDER_FOCUS))),
       Rule("QPushButton", "pressed",
            ("background-color" :> AppColors.BUTTON_PRESSED)
         @@ ("border" :> Border(AppDimensions.BORDER_WIDTH_STANDARD, AppColors.BORDER_PRESSED))),
       Rule("QPushButton", "focus",
            ("border" :> Border(AppDimensions.BORDER_WIDTH_THICK, AppColors.BORDER_FOCUS))
         @@ ("outline" :> "none")),
       Rule("QPushButton", "disabled",
            ("background-color" :> AppColors.BACKGROUND_DISABLED)
         @@ ("color" :> AppColors.TEXT_DISABLED)
         @@ ("border" :> Border(AppDimensions.BORDER_WIDTH_STANDARD, AppColors.BORDER_DISABLED))) >>

\* AppStyles.button_compact(): the base rule sets no border
button_compact ==
    << Rule("QPushButton", "",
            ("background-color" :> AppColors.BUTTON_DEFAULT)
         @@ ("color" :> AppColors.TEXT_DEFAULT)
         @@ ("padding" :> <<AppDimensions.PADDING_BUTTON_COMPACT>>)
         @@ ("font-size" :> AppFonts.SMALL_SIZE)
         @@ ("min-height" :> AppDimensions.BUTTON_HEIGHT_SMALL)
         @@ ("border-radius" :> AppDimensions.BORDER_RADIUS_STANDARD)),
       Rule("QPushButton", "hover",
            ("background-color" :> AppColors.BUTTON_HOVER)
         @@ ("border" :> Border(AppDimensions.BORDER_WIDTH_STANDARD, AppColors.BORDER_FOCUS))),
       Rule("QPushButton", "pressed",
            ("background-color" :> AppColors.BUTTON_PRESSED)
         @@ ("border" :> Border(AppDimensions.BORDER_WIDTH_STANDARD, AppColors.BORDER_PRESSED))),
       Rule("QPushButton", "focus",
            ("border" :> Border(AppDimensions.BORDER_WIDTH_THICK, AppColors.BORDER_FOCUS))
         @@ ("outline" :> "none")),
       Rule("QPushButton", "disabled",
            ("background-color" :> AppColors.BACKGROUND_DISABLED)
         @@ ("color" :> AppColors.TEXT_DISABLED)
         @@ ("border" :> Border(AppDimensions.BORDER_WIDTH_STANDARD, AppColors.BORDER_DISABLED))) >>

\* AppStyles.icon_button()
icon_button ==
    << Rule("QPushButton", "",
            ("background-color" :> "transparent")
         @@ ("border" :> Border(AppDimensions.BORDER_WIDTH_STANDARD, "transparent"))
         @@ ("padding" :> <<AppDimensions.PADDING_SMALL>>)
         @@ ("color" :> AppColors.TEXT_DEFAULT)
         @@ ("min-width" :> AppDimensions.ICON_SIZE_MEDIUM + 8)
         @@ ("min-height" :> AppDimensions.ICON_SIZE_MEDIUM + 8)
         @@ ("border-radius" :> AppDimensions.BORDER_RADIUS_MODERN)),
       Rule("QPushButton", "hover",
            ("background-color" :> AppColors.INFO_BACKGROUND)
         @@ ("border" :> Border(AppDimensions.BORDER_WIDTH_STANDARD, AppColors.BORDER_LIGHT))),
       Rule("QPushButton", "pressed",
            ("background-color" :> AppColors.BUTTON_PRESSED)
         @@ ("border" :> Border(AppDimensions.BORDER_WIDTH_STANDARD, AppColors.BORDER_FOCUS))),
       Rule("QPushButton", "focus",
            ("border" :> Border(AppDimensions.BORDER_WIDTH_STANDARD, AppColors.BORDER_FOCUS))
         @@ ("outline" :> "none")),
       Rule("QPushButton", "disabled",
            ("color" :> AppColors.ICON_DISABLED)
         @@ ("background-color" :> "transparent")
         @@ ("border" :> Border(AppDimensions.BORDER_WIDTH_STANDARD, "transparent"))) >>

\* AppStyles.label()
label ==
    << Rule("QLabel", "",
            ("color" :> AppColors.TEXT_DEFAULT)
         @@ ("font-family" :> AppFonts.DEFAULT_FAMILY)
         @@ ("font-size" :> AppFonts.DEFAULT_SIZE)) >>

\* AppStyles.label_status()
label_status ==
    << Rule("QLabel", "",
            ("color" :> AppColors.TEXT_DEFAULT)
         @@ ("padding" :> <<AppDimensions.PADDING_SMALL, AppDimensions.PADDING_LARGE>>)
         @@ ("background-color" :> AppColors.BACKGROUND_LIGHT)
         @@ ("border" :> Border(AppDimensions.BORDER_WIDTH_STANDARD, AppColors.BORDER_DEFAULT))
         @@ ("font-family" :> AppFonts.DEFAULT_FAMILY)
         @@ ("font-size" :> AppFonts.DEFAULT_SIZE)
         @@ ("min-height" :> AppDimensions.BUTTON_HEIGHT_MEDIUM)
         @@ ("border-radius" :> AppDimensions.BORDER_RADIUS_STANDARD)) >>

\* a notification() that unpacks its tuple as (bg, text, border)
notification_swapped(notification_type) ==
    LET type_colors ==
            [ success |-> <<AppColors.SUCCESS_BACKGROUND, AppColors.SUCCESS_BORDER, AppColors.SUCCESS_PRIMARY>>,
              warning |-> <<AppColors.WARNING_BACKGROUND, AppColors.WARNING_BORDER, AppColors.WARNING_PRIMARY>>,
              error   |-> <<AppColors.ERROR_BACKGROUND, AppColors.ERROR_BORDER, AppColors.ERROR_PRIMARY>>,
              info    |-> <<AppColors.INFO_BACKGROUND, AppColors.INFO_BORDER, AppColors.INFO_PRIMARY>> ]
        t == Get(type_colors, notification_type, type_colors["info"])
    IN  << Rule("QLabel", "",
                ("background-color" :> t[1])
             @@ ("color" :> t[2])
             @@ ("border" :> Border(AppDimensions.BORDER_WIDTH_STANDARD, t[3]))
             @@ ("border-radius" :> AppDimensions.BORDER_RADIUS_MODERN)
             @@ ("padding" :> <<AppDimensions.PADDING_MEDIUM>>)
             @@ ("font-family" :> AppFonts.DEFAULT_FAMILY)
             @@ ("font-size" :> AppFonts.DEFAULT_SIZE)) >>

\* AppStyles.notification(notification_type): its own table of (bg, border, text).
\* The dict type_colors that notification builds:
type_colors ==
    [ success |-> <<AppColors.SUCCESS_BACKGROUND, AppColors.SUCCESS_BORDER, AppColors.SUCCESS_PRIMARY>>,
      warning |-> <<AppColors.WARNING_BACKGROUND, AppColors.WARNING_BORDER, AppColors.WARNING_PRIMARY>>,
      error   |-> <<AppColors.ERROR_BACKGROUND, AppColors.ERROR_BORDER, AppColors.ERROR_PRIMARY>>,
      info    |-> <<AppColors.INFO_BACKGROUND, AppColors.INFO_BORDER, AppColors.INFO_PRIMARY>> ]

\* the unpacking and the f-string of notification, on the dict built before them
notification_format(colors, notification_type) ==
    LET t == Get(colors, notification_type, colors["info"])
        bg_color == t[1]
        border_color == t[2]
        text_color == t[3]
    IN  << Rule("QLabel", "",
                ("background-color" :> bg_color)
             @@ ("color" :> text_color)
             @@ ("border" :> Border(AppDimensions.BORDER_WIDTH_STANDARD, border_color))
             @@ ("border-radius" :> AppDimensions.BORDER_RADIUS_MODERN)
             @@ ("padding" :> <<AppDimensions.PADDING_MEDIUM>>)
             @@ ("font-family" :> AppFonts.DEFAULT_FAMILY)
             @@ ("font-size" :> AppFonts.DEFAULT_SIZE)) >>

notification(notification_type) == notification_format(type_colors, notification_type)

\* a get_semantic_color() whose category lookup has no default row: an unknown
\* category yields the element default straight away
get_semantic_color_norow(semantic_type, element) ==
    LET color_map ==
            [ success |-> [ primary    |-> AppColors.SUCCESS_PRIMARY,
                            background |-> AppColors.SUCCESS_BACKGROUND,
                            border     |-> AppColors.SUCCESS_BORDER ],
              warning |-> [ primary    |-> AppColors.WARNING_PRIMARY,
                            background |-> AppColors.WARNING_BACKGROUND,
                            border     |-> AppColors.WARNING_BORDER ],
              error   |-> [ primary    |-> AppColors.ERROR_PRIMARY,
                            background |-> AppColors.ERROR_BACKGROUND,
                            border     |-> AppColors.ERROR_BORDER ],
              info    |-> [ primary    |-> AppColors.INFO_PRIMARY,
                            background |-> AppColors.INFO_BACKGROUND,
                            border     |-> AppColors.INFO_BORDER ] ]
    IN  Get(Get(color_map, semantic_type, << >>), element, AppColors.INFO_PRIMARY)

\* ThemeManager.get_semantic_color(semantic_type, element)
\* the dict color_map that get_semantic_color builds
color_map ==
    [ success |-> [ primary    |-> AppColors.SUCCESS_PRIMARY,
                    background |-> AppColors.SUCCESS_BACKGROUND,
                    border     |-> AppColors.SUCCESS_BORDER ],
      warning |-> [ primary    |-> AppColors.WARNING_PRIMARY,
                    background |-> AppColors.WARNING_BACKGROUND,
                    border     |-> AppColors.WARNING_BORDER ],
      error   |-> [ primary    |-> AppColors.ERROR_PRIMARY,
                    background |-> AppColors.ERROR_BACKGROUND,
                    border     |-> AppColors.ERROR_BORDER ],
      info    |-> [ primary    |-> AppColors.INFO_PRIMARY,
                    background |-> AppColors.INFO_BACKGROUND,
                    border     |-> AppColors.INFO_BORDER ] ]

\* the return statement of get_semantic_color, on the dict built before it
color_map_get(map, semantic_type, element) ==
    Get(Get(map, semantic_type, map["info"]), element, AppColors.INFO_PRIMARY)

get_semantic_color(semantic_type, element) ==
    color_map_get(color_map, semantic_type, element)

\* AppStyles.separator(orientation)
separator(orientation) ==
    IF orientation = "horizontal"
    THEN << Rule("QFrame", "",
                 ("color" :> AppColors.BORDER_LIGHT)
              @@ ("background-color" :> AppColors.BORDER_LIGHT)
              @@ ("max-height" :> AppDimensions.HEIGHT_SEPARATOR)) >>
    ELSE << Rule("QFrame", "",
                 ("color" :> AppColors.BORDER_DEFAULT)
              @@ ("background-color" :> AppColors.BORDER_DEFAULT)
              @@ ("max-width" :> AppDimensions.BORDER_WIDTH_STANDARD)
              @@ ("margin" :> <<AppDimensions.PADDING_SMALL, AppDimensions.PADDING_MEDIUM>>)) >>

\* AppStyles.port_type_indicator(style_type)
port_type_indicator(style_type) ==
    LET bg_color == get_semantic_color(style_type, "background")
        border_color == get_semantic_color(style_type, "border")
        text_color == get_semantic_color(style_type, "primary")
    IN  << Rule("QLabel", "",
                ("color" :> text_color)
             @@ ("font-style" :> AppFonts.ITALIC_STYLE)
             @@ ("font-family" :> AppFonts.DEFAULT_FAMILY)
             @@ ("font-size" :> AppFonts.SMALL_SIZE)
             @@ ("padding" :> <<AppDimensions.PADDING_SMALL, AppDimensions.PADDING_MEDIUM>>)
             @@ ("background-color" :> bg_color)
             @@ ("border" :> Border(AppDimensions.BORDER_WIDTH_STANDARD, border_color))
             @@ ("border-radius" :> AppDimensions.BORDER_RADIUS_MODERN)
             @@ ("margin-top" :> AppDimensions.SPACING_SMALL)) >>

-----------------------------------------------------------------------------
(* The style-sheet cascade of the host toolkit, as applied to one widget:  *)
(* a rule matches when its pseudo-state holds of the widget; among the     *)
(* matching rules that set a property, the rule of highest specificity     *)
(* wins and ties go to the later rule.                                     *)

Matches(rule, w) ==
    CASE rule.pseudo = ""         -> TRUE
      [] rule.pseudo = "hover"    -> w.hover
      [] rule.pseudo = "pressed"  -> w.pressed
      [] rule.pseudo = "focus"    -> w.focus
      [] rule.pseudo = "disabled" -> ~w.enabled
      [] OTHER                    -> FALSE

Specificity(rule) == IF rule.pseudo = "" THEN 0 ELSE 1

Setters(sheet, w, prop) ==
    { i \in 1..Len(sheet) : Matches(sheet[i], w) /\ prop \in DOMAIN sheet[i].decl }

Winner(sheet, w, prop) ==
    CHOOSE i \in Setters(sheet, w, prop) :
        \A j \in Setters(sheet, w, prop) :
            \/ Specificity(sheet[j]) < Specificity(sheet[i])
            \/ Specificity(sheet[j]) = Specificity(sheet[i]) /\ j <= i

\* the value the cascade resolves for prop; defined when some matching rule sets it
Cascade(sheet, w, prop) == sheet[Winner(sheet, w, prop)].decl[prop]

\* what the widget renders
Appearance(w, prop) == Cascade(w.styleSheet, w, prop)

-----------------------------------------------------------------------------
(* Icon renderer *)

\* the icon templates of AppIcons that this file refers to, by attribute name
AppIcons ==
    [ DROPDOWN_ARROW |-> "svg:dropdown_arrow{color}",
      CHECKBOX_CHECK |-> "svg:checkbox_check{color}" ]

\* a lookup that takes the identifier as it is written
upper_asis(s) == s

\* str.upper() on the icon identifiers the model draws
upper(s) ==
    CASE s = "dropdown_arrow"   -> "DROPDOWN_ARROW"
      [] s = "Dropdown_Arrow"   -> "DROPDOWN_ARROW"
      [] s = "CHECKBOX_CHECK"   -> "CHECKBOX_CHECK"
      [] s = "nonexistent_icon" -> "NONEXISTENT_ICON"
      [] s = "Nonexistent_Icon" -> "NONEXISTENT_ICON"
      [] s = ""                 -> ""

\* a lookup that falls back to a stock template instead of None
getattr_AppIcons_stock(name) == Get(AppIcons, name, AppIcons.DROPDOWN_ARROW)

\* getattr(AppIcons, name, None)
getattr_AppIcons(name) == Get(AppIcons, name, None)

\* int(n / d): Python's int() truncates towards zero
int(n, d) == IF n >= 0 THEN n \div d ELSE -((-n) \div d)

\* a get_scaled_size() that scales the whole part of the factor only
get_scaled_size_wholefactor(base_size, scale_factor) ==
    LET factor == IF app.instance /\ app.screen
                  THEN scale_factor * app.devicePixelRatio
                  ELSE scale_factor * 100
        scaled_size == base_size * int(factor, 10000)
    IN  <<scaled_size, scaled_size>>

\* a get_scaled_size() that multiplies by the density a second time
get_scaled_size_twice(base_size, scale_factor) ==
    LET factor == IF app.instance /\ app.screen
                  THEN scale_factor * app.devicePixelRatio * app.devicePixelRatio
                  ELSE scale_factor * 10000
        scaled_size == int(base_size * factor, 1000000)
    IN  <<scaled_size, scaled_size>>

\* IconManager.get_scaled_size(base_size, scale_factor); scale_factor in hundredths.
\* The density is read when an application instance with a primary screen exists;
\* int() truncates the product.
get_scaled_size(base_size, scale_factor) ==
    LET factor == IF app.instance /\ app.screen
                  THEN scale_factor * app.devicePixelRatio
                  ELSE scale_factor * 100
        scaled_size == int(base_size * factor, 10000)
    IN  <<scaled_size, scaled_size>>

\* templates a caller can hand to create_svg_icon besides those of AppIcons:
\* one without any replacement field, one whose style block holds another
\* replacement field, one that is not an SVG document
PlainTemplate == "svg:fixed"
StyledTemplate == "svg:styled{fill}{color}"
BrokenTemplate == "notsvg{color}"

\* the replacement fields of a template
fields(svg_template) ==
    CASE svg_template = PlainTemplate  -> {}
      [] svg_template = StyledTemplate -> {"fill", "color"}
      [] OTHER                         -> {"color"}

\* svg_template.format(color=...) raises KeyError on a field other than color
format_raises(svg_template) == fields(svg_template) \ {"color"} # {}

\* svg_template.format(color=...): the text with every {color} replaced; a
\* template without that field comes back as it is
format(svg_template, color) ==
    IF "color" \in fields(svg_template)
    THEN [template |-> svg_template, color |-> color]
    ELSE [template |-> svg_template, color |-> None]

\* QSvgRenderer.load(): FALSE, without an exception, when the data is no SVG
load(svg_data) == svg_data.template # BrokenTemplate

\* IconManager._svg_to_pixmap(svg_data, size): transparent pixmap of that size
\* with the SVG painted on it; an invalid renderer paints nothing
svg_to_pixmap(svg_data, size) ==
    [svg |-> svg_data, size |-> size, fill |-> "transparent", painted |-> load(svg_data)]

\* QIcon(): an icon is the set of the pixmaps added to it, each under its mode
QIcon == {}

\* icon.addPixmap(pixmap, mode, QIcon.State.Off)
addPixmap(icon, pixmap, mode) ==
    { e \in icon : e.mode # mode } \cup { [mode |-> mode, pixmap |-> pixmap] }

\* the rasterization of create_svg_icon that raises: none (0), or the one for
\* Normal (1), Active (2), Selected (3), Disabled (4)
Faults == 0 .. 4

\* the outcome of a call: the exception it let escape, or the value it returned
Outcome(exception, value) == [raised |-> exception, value |-> value]

\* a create_svg_icon() that skips a state whose rasterization raised
create_svg_icon_skipfailed(svg_template, color, size, fault) ==
    LET icon0 == QIcon
        icon1 == IF fault = 1 THEN icon0
                 ELSE addPixmap(icon0, svg_to_pixmap(format(svg_template, color), size), "Normal")
        icon2 == IF fault = 2 THEN icon1
                 ELSE addPixmap(icon1, svg_to_pixmap(format(svg_template, AppColors.ICON_HOVER), size), "Active")
        icon3 == IF fault = 3 THEN icon2
                 ELSE addPixmap(icon2, svg_to_pixmap(format(svg_template, AppColors.ICON_PRESSED), size), "Selected")
        icon4 == IF fault = 4 THEN icon3
                 ELSE addPixmap(icon3, svg_to_pixmap(format(svg_template, AppColors.ICON_DISABLED), size), "Disabled")
    IN  IF format_raises(svg_template) THEN Outcome("KeyError", QIcon)
        ELSE Outcome(None, icon4)

\* a create_svg_icon() that derives every state colour from the requested one
create_svg_icon_onecolor(svg_template, color, size, fault) ==
    LET icon1 == addPixmap(QIcon, svg_to_pixmap(format(svg_template, color), size), "Normal")
        icon2 == addPixmap(icon1, svg_to_pixmap(format(svg_template, color), size), "Active")
        icon3 == addPixmap(icon2, svg_to_pixmap(format(svg_template, color), size), "Selected")
        icon4 == addPixmap(icon3, svg_to_pixmap(format(svg_template, color), size), "Disabled")
    IN  IF format_raises(svg_template) THEN Outcome("KeyError", QIcon)
        ELSE IF fault # 0 THEN Outcome("RuntimeError", QIcon)
        ELSE Outcome(None, icon4)

\* IconManager.create_svg_icon(svg_template, color, size).  The icon is a local
\* of the call: an exception from format() or from a rasterization unwinds the
\* call and the caller gets no icon.
create_svg_icon(svg_template, color, size, fault) ==
    LET icon0 == QIcon
        normal_pixmap == svg_to_pixmap(format(svg_template, color), size)
        icon1 == addPixmap(icon0, normal_pixmap, "Normal")
        hover_pixmap == svg_to_pixmap(format(svg_template, AppColors.ICON_HOVER), size)
        icon2 == addPixmap(icon1, hover_pixmap, "Active")
        pressed_pixmap == svg_to_pixmap(format(svg_template, AppColors.ICON_PRESSED), size)
        icon3 == addPixmap(icon2, pressed_pixmap, "Selected")
        disabled_pixmap == svg_to_pixmap(format(svg_template, AppColors.ICON_DISABLED), size)
        icon4 == addPixmap(icon3, disabled_pixmap, "Disabled")
    IN  IF format_raises(svg_template) THEN Outcome("KeyError", QIcon)
        ELSE IF fault # 0 THEN Outcome("RuntimeError", QIcon)
        ELSE Outcome(None, icon4)

\* IconManager.create_combobox_arrow_icon(size)
create_combobox_arrow_icon(size, fault) ==
    create_svg_icon(AppIcons.DROPDOWN_ARROW, AppColors.ICON_DEFAULT, size, fault)

\* IconManager.create_checkbox_check_icon(size)
create_checkbox_check_icon(size, fault) ==
    create_svg_icon(AppIcons.CHECKBOX_CHECK, AppColors.TEXT_WHITE, size, fault)

-----------------------------------------------------------------------------
(* Inputs *)

StyleTypes == {"standard", "large", "compact", "icon"}
Variants == {"default", "primary", "success", "danger", "bogus"}
Callbacks == {None, "callback"}
LabelTypes == {"standard", "status", "bogus"}
SemanticTypes == {"success", "warning", "error", "info", "bogus"}
Elements == {"primary", "background", "border", "bogus"}
IconNames == {"dropdown_arrow", "Dropdown_Arrow", "CHECKBOX_CHECK",
              "nonexistent_icon", "Nonexistent_Icon", ""}
SizeTiers == {"small", "medium", "large", "xlarge", "bogus"}
ToolTips == {"", "tip"}
Orientations == {"horizontal", "vertical", "bogus", ""}
ClickCallbacks == {None, "on_start", "on_stop"}
Densities == {100, 125, 150, 200}
BaseSizes == {-4, 0, 16, 20, 24, 32}
ScaleFactors == {100, 110, 125, 133, 150, 200}
Templates == {AppIcons.DROPDOWN_ARROW, PlainTemplate, StyledTemplate, BrokenTemplate}
Colors == {AppColorsInit.ICON_DEFAULT, "#ff0000"}
QSizes == {<<-4, -4>>, <<0, 0>>, <<16, 16>>}

\* the display environments of the host
\* a QApplication, when there is one, starts with no style sheet; installs
\* counts the setStyleSheet calls made on it
Environments ==
    { [instance |-> FALSE, screen |-> FALSE, devicePixelRatio |-> 100,
       styleSheet |-> << >>, installs |-> 0],
      [instance |-> TRUE,  screen |-> FALSE, devicePixelRatio |-> 100,
       styleSheet |-> << >>, installs |-> 0] }
    \cup { [instance |-> TRUE, screen |-> TRUE, devicePixelRatio |-> d,
            styleSheet |-> << >>, installs |-> 0] : d \in Densities }

-----------------------------------------------------------------------------
(* Widget factory *)

\* no live control
NoWidget == [cls |-> None]

\* a freshly constructed QPushButton / QLabel / QFrame: enabled, no style sheet,
\* a null icon, the default icon size (<< >>), no slot connected to clicked, no
\* frame, no fixed width
QWidget(cls, req) ==
    [ cls        |-> cls,
      styleSheet |-> << >>,
      enabled    |-> TRUE,
      hover      |-> FALSE,
      pressed    |-> FALSE,
      focus      |-> FALSE,
      clicked    |-> {},
      icon       |-> QIcon,
      iconSize   |-> << >>,
      toolTip    |-> "",
      frameShape |-> "NoFrame",
      frameShadow |-> "Plain",
      fixedWidth |-> None,
      req        |-> req ]

\* a create_button() that recolours the palette to the variant it was asked for
create_button_recolor(callback, style_type, variant, enabled) ==
    /\ widget.cls = None
    /\ widget' = [ QWidget("QPushButton",
                       [ factory |-> "create_button", style_type |-> style_type,
                         variant |-> variant, callback |-> callback, enabled |-> enabled ])
                   EXCEPT !.styleSheet = button_base, !.enabled = enabled,
                          !.clicked = IF callback # None THEN {callback} ELSE {} ]
    /\ AppColors' = IF variant = "primary"
                    THEN [AppColors EXCEPT !.BUTTON_DEFAULT = AppColors.ACCENT_BLUE,
                                           !.INFO_PRIMARY = AppColors.HOT_TRACKING]
                    ELSE AppColors
    /\ raised' = None
    /\ UNCHANGED <<AppDimensions, AppFonts, Config, app, lastCall, invoked, thread, panel>>

\* a create_button() that leaves out the connect
create_button_unbound(callback, style_type, variant, enabled) ==
    LET button0 == QWidget("QPushButton",
                       [ factory |-> "create_button", style_type |-> style_type,
                         variant |-> variant, callback |-> callback, enabled |-> enabled ])
        sheet == IF style_type = "large" THEN button_large
                 ELSE IF style_type = "compact" THEN button_compact
                 ELSE IF style_type = "icon" THEN icon_button
                 ELSE button(variant)
    IN  /\ widget.cls = None
        /\ widget' = [button0 EXCEPT !.styleSheet = sheet, !.enabled = enabled]
        /\ raised' = None
        /\ UNCHANGED <<tables, app, lastCall, invoked, thread, panel>>

\* the QPushButton that ThemeManager.create_button(text, callback, style_type,
\* variant, enabled) builds and returns
QPushButton(callback, style_type, variant, enabled) ==
    LET button0 == QWidget("QPushButton",
                       [ factory |-> "create_button", style_type |-> style_type,
                         variant |-> variant, callback |-> callback, enabled |-> enabled ])
        sheet == IF style_type = "large" THEN button_large
                 ELSE IF style_type = "compact" THEN button_compact
                 ELSE IF style_type = "icon" THEN icon_button
                 ELSE button(variant)
        button1 == [button0 EXCEPT !.styleSheet = sheet]
        button2 == [button1 EXCEPT !.enabled = enabled]
        button3 == IF callback # None
                   THEN [button2 EXCEPT !.clicked = @ \cup {callback}]
                   ELSE button2
    IN  button3

\* ThemeManager.create_button(text, callback, style_type, variant, enabled)
create_button(callback, style_type, variant, enabled) ==
    /\ widget.cls = None
    /\ widget' = QPushButton(callback, style_type, variant, enabled)
    /\ raised' = None
    /\ UNCHANGED <<tables, app, lastCall, invoked, thread, panel>>

\* the rates of Config.QUICK_BAUD_RATES the quick-baud row is built from
QuickBaudRates == {"9600", "19200", "115200"}

\* the callback the quick-baud buttons share
QuickBaudCallbacks == {"set_all_baud"}

\* what a non-checkable button passes with clicked(bool)
checked == "False"

\* lambda r=rate: callback(r), a slot whose first positional parameter is r
lambda_r(rate, callback) == "lambda r=" \o rate \o ": " \o callback \o "(r)"

\* lambda checked, r=rate: callback(r)
lambda_checked_r(rate, callback) ==
    "lambda checked, r=" \o rate \o ": " \o callback \o "(r)"

\* the calls a slot makes when clicked(bool) runs it with the positional
\* argument arg: a two-parameter lambda takes arg as checked and keeps the
\* default of r, a one-parameter lambda takes arg as r, and a plain callback
\* is called with arg
run_slot(slot, arg) ==
    IF \E r \in QuickBaudRates, c \in QuickBaudCallbacks : slot = lambda_checked_r(r, c)
    THEN LET b == CHOOSE b \in QuickBaudRates \X QuickBaudCallbacks :
                      slot = lambda_checked_r(b[1], b[2])
         IN  [callback |-> b[2], args |-> <<b[1]>>]
    ELSE IF \E r \in QuickBaudRates, c \in QuickBaudCallbacks : slot = lambda_r(r, c)
    THEN LET b == CHOOSE b \in QuickBaudRates \X QuickBaudCallbacks :
                      slot = lambda_r(b[1], b[2])
         IN  [callback |-> b[2], args |-> <<arg>>]
    ELSE [callback |-> slot, args |-> <<arg>>]

\* a create_quick_baud_button() whose lambda has no parameter for the checked
\* flag
create_quick_baud_button_nochecked(rate, callback) ==
    LET btn0 == QPushButton(lambda_r(rate, callback), "compact", "default", TRUE)
        btn1 == [btn0 EXCEPT !.fixedWidth = AppDimensions.WIDTH_BUTTON_QUICK_BAUD]
        btn2 == [btn1 EXCEPT !.toolTip = "Set all ports to " \o rate \o " baud"]
    IN  /\ widget.cls = None
        /\ widget' = [btn2 EXCEPT !.req = [ factory |-> "create_quick_baud_button",
                                            rate |-> rate, callback |-> callback ]]
        /\ raised' = None
        /\ UNCHANGED <<tables, app, lastCall, invoked, thread, panel>>

\* ThemeManager.create_quick_baud_button(rate, callback)
create_quick_baud_button(rate, callback) ==
    LET btn0 == QPushButton(lambda_checked_r(rate, callback), "compact", "default", TRUE)
        btn1 == [btn0 EXCEPT !.fixedWidth = AppDimensions.WIDTH_BUTTON_QUICK_BAUD]
        btn2 == [btn1 EXCEPT !.toolTip = "Set all ports to " \o rate \o " baud"]
    IN  /\ widget.cls = None
        /\ widget' = [btn2 EXCEPT !.req = [ factory |-> "create_quick_baud_button",
                                            rate |-> rate, callback |-> callback ]]
        /\ raised' = None
        /\ UNCHANGED <<tables, app, lastCall, invoked, thread, panel>>

\* ThemeManager.create_label(text, style_type)
create_label(style_type) ==
    LET label0 == QWidget("QLabel", [factory |-> "create_label", style_type |-> style_type])
        style_map == [standard |-> label, status |-> label_status]
    IN  /\ widget.cls = None
        /\ widget' = [label0 EXCEPT !.styleSheet = Get(style_map, style_type, label)]
        /\ raised' = None
        /\ UNCHANGED <<tables, app, lastCall, invoked, thread, panel>>

\* a create_separator() that draws the horizontal line for every orientation
\* but "vertical"
create_separator_unlessvertical(orientation) ==
    LET separator0 == QWidget("QFrame", [factory |-> "create_separator", orientation |-> orientation])
        separator1 == IF orientation = "vertical"
                      THEN [separator0 EXCEPT !.frameShape = "VLine"]
                      ELSE [separator0 EXCEPT !.frameShape = "HLine"]
    IN  /\ widget.cls = None
        /\ widget' = [separator1 EXCEPT !.frameShadow = "Sunken",
                                         !.styleSheet = separator(orientation)]
        /\ raised' = None
        /\ UNCHANGED <<tables, app, lastCall, invoked, thread, panel>>

\* ThemeManager.create_separator(orientation, parent)
create_separator(orientation) ==
    LET separator0 == QWidget("QFrame", [factory |-> "create_separator", orientation |-> orientation])
        separator1 == IF orientation = "horizontal"
                      THEN [separator0 EXCEPT !.frameShape = "HLine"]
                      ELSE [separator0 EXCEPT !.frameShape = "VLine"]
        separator2 == [separator1 EXCEPT !.frameShadow = "Sunken"]
    IN  /\ widget.cls = None
        /\ widget' = [separator2 EXCEPT !.styleSheet = separator(orientation)]
        /\ raised' = None
        /\ UNCHANGED <<tables, app, lastCall, invoked, thread, panel>>

\* the pixel base of a size tier (size_map and its .get default)
base_size_of_smallfallback(size) ==
    LET size_map == [ small  |-> AppDimensions.ICON_SIZE_SMALL,
                      medium |-> AppDimensions.ICON_SIZE_MEDIUM,
                      large  |-> AppDimensions.ICON_SIZE_LARGE,
                      xlarge |-> AppDimensions.ICON_SIZE_XLARGE ]
    IN  Get(size_map, size, AppDimensions.ICON_SIZE_SMALL)

\* size_map.get(size, AppDimensions.ICON_SIZE_MEDIUM) of create_icon_button
base_size_of(size) ==
    LET size_map == [ small  |-> AppDimensions.ICON_SIZE_SMALL,
                      medium |-> AppDimensions.ICON_SIZE_MEDIUM,
                      large  |-> AppDimensions.ICON_SIZE_LARGE,
                      xlarge |-> AppDimensions.ICON_SIZE_XLARGE ]
    IN  Get(size_map, size, AppDimensions.ICON_SIZE_MEDIUM)

\* ThemeManager.create_icon_button(icon_name, tooltip, size).  Nothing in it
\* catches an exception of create_svg_icon: the call is unwound before the
\* button is returned.
create_icon_button(icon_name, tooltip, size, fault) ==
    LET button0 == QWidget("QPushButton",
                       [ factory |-> "create_icon_button", icon_name |-> icon_name,
                         tooltip |-> tooltip, size |-> size ])
        base_size == base_size_of(size)
        icon_size == get_scaled_size(base_size, 100)
        icon_template == getattr_AppIcons(upper(icon_name))
        has_template == icon_template # None /\ icon_template # ""
        icon == IF has_template
                THEN create_svg_icon(icon_template, AppColors.ICON_DEFAULT, icon_size, fault)
                ELSE Outcome(None, QIcon)
        button1 == IF has_template
                   THEN [button0 EXCEPT !.icon = icon.value, !.iconSize = icon_size]
                   ELSE button0
        button2 == [button1 EXCEPT !.styleSheet = icon_button]
        button3 == IF tooltip # "" THEN [button2 EXCEPT !.toolTip = tooltip] ELSE button2
    IN  /\ widget.cls = None
        /\ IF icon.raised # None
           THEN /\ raised' = icon.raised
                /\ UNCHANGED widget
           ELSE /\ raised' = None
                /\ widget' = button3
        /\ UNCHANGED <<tables, app, lastCall, invoked, thread, panel>>

-----------------------------------------------------------------------------
(* The host's use of a control it was handed: the enabled flag, the        *)
(* interaction sub-states the style sheets select on, and its destruction  *)
(* by the widget tree that owns it.  The model follows one control at a    *)
(* time: the factory operations above act when no control is live.         *)

setEnabled(b) ==
    /\ widget.cls # None
    /\ widget.enabled # b
    /\ widget' = [widget EXCEPT !.enabled = b]
    /\ UNCHANGED <<tables, app, lastCall, raised, invoked, thread, panel>>

setHover(b) ==
    /\ widget.cls # None
    /\ widget.hover # b
    /\ widget' = [widget EXCEPT !.hover = b]
    /\ UNCHANGED <<tables, app, lastCall, raised, invoked, thread, panel>>

setDown(b) ==
    /\ widget.cls # None
    /\ widget.pressed # b
    /\ widget' = [widget EXCEPT !.pressed = b]
    /\ UNCHANGED <<tables, app, lastCall, raised, invoked, thread, panel>>

setFocus(b) ==
    /\ widget.cls # None
    /\ widget.focus # b
    /\ widget' = [widget EXCEPT !.focus = b]
    /\ UNCHANGED <<tables, app, lastCall, raised, invoked, thread, panel>>

\* the user clicks the button: an enabled button emits clicked, which runs the
\* slots connected to it
click ==
    /\ widget.cls = "QPushButton"
    /\ widget.enabled
    /\ invoked' = [clicked |-> TRUE,
                   given   |-> Get(widget.req, "callback", None),
                   calls   |-> widget.clicked]
    /\ UNCHANGED <<tables, app, widget, lastCall, raised, thread, panel>>

\* the number of buttons the host places in its quick-baud row
MaxButtons == 3

\* the host adds the quick-baud button it has just been given to its row
addWidget ==
    /\ widget.cls = "QPushButton"
    /\ widget.req.factory = "create_quick_baud_button"
    /\ Len(panel.buttons) < MaxButtons
    /\ panel' = [panel EXCEPT !.buttons = Append(@, widget)]
    /\ widget' = NoWidget
    /\ UNCHANGED <<tables, app, lastCall, raised, invoked, thread>>

\* the slots of a set, in the order clicked runs them
RECURSIVE slots_in_order(_)
slots_in_order(slots) ==
    IF slots = {} THEN << >>
    ELSE LET slot == CHOOSE x \in slots : TRUE
         IN  <<slot>> \o slots_in_order(slots \ {slot})

\* the user clicks button i of the row: an enabled button emits clicked(checked),
\* which runs each slot connected to it once
click_button(i) ==
    /\ i \in 1 .. Len(panel.buttons)
    /\ panel.buttons[i].enabled
    /\ LET slots == slots_in_order(panel.buttons[i].clicked)
       IN  panel' = [panel EXCEPT !.clicked = i,
                                  !.calls = [k \in 1 .. Len(slots) |-> run_slot(slots[k], checked)]]
    /\ UNCHANGED <<tables, app, widget, lastCall, raised, invoked, thread>>

destroy ==
    /\ widget.cls # None
    /\ widget' = NoWidget
    /\ UNCHANGED <<tables, app, lastCall, raised, invoked, thread, panel>>

-----------------------------------------------------------------------------
(* Resolver calls made directly by application code *)

Returned(fn, args, result) ==
    /\ lastCall' = [fn |-> fn, args |-> args, result |-> result, raised |-> None]
    /\ raised' = None
    /\ UNCHANGED <<tables, app, widget, invoked, thread, panel>>

\* the call let an exception escape: the caller gets no result
Raised(fn, args, exception) ==
    /\ lastCall' = [fn |-> fn, args |-> args, result |-> None, raised |-> exception]
    /\ raised' = exception
    /\ UNCHANGED <<tables, app, widget, invoked, thread, panel>>

call_button(style_variant) ==
    Returned("button", <<style_variant>>, button(style_variant))

call_notification(notification_type) ==
    Returned("notification", <<notification_type>>, notification(notification_type))

call_port_type_indicator(style_type) ==
    Returned("port_type_indicator", <<style_type>>, port_type_indicator(style_type))

call_separator(orientation) ==
    Returned("separator", <<orientation>>, separator(orientation))

call_get_semantic_color(semantic_type, element) ==
    Returned("get_semantic_color", <<semantic_type, element>>,
             get_semantic_color(semantic_type, element))

-----------------------------------------------------------------------------
(* The application-wide style sheet *)

\* AppStyles.tooltip()
tooltip ==
    << Rule("QToolTip", "",
            ("background-color" :> AppColors.BACKGROUND_TOOLTIP)
         @@ ("color" :> AppColors.TEXT_TOOLTIP)
         @@ ("border" :> Border(AppDimensions.BORDER_WIDTH_STANDARD, AppColors.BORDER_DEFAULT))
         @@ ("padding" :> <<AppDimensions.PADDING_MEDIUM>>)
         @@ ("font-family" :> AppFonts.DEFAULT_FAMILY)
         @@ ("font-size" :> AppFonts.DEFAULT_SIZE)
         @@ ("border-radius" :> AppDimensions.BORDER_RADIUS_MODERN)) >>

\* the f-string global_style of apply_global_stylesheet
global_style ==
    << Rule("QApplication", "",
            ("font-family" :> AppFonts.DEFAULT_FAMILY)
         @@ ("font-size" :> AppFonts.DEFAULT_SIZE)) >>
    \o tooltip
    \o << Rule("QMenuBar", "",
               ("background-color" :> AppColors.BACKGROUND_MENU)
            @@ ("color" :> AppColors.TEXT_MENU)
            @@ ("border-bottom" :> Border(AppDimensions.BORDER_WIDTH_STANDARD, AppColors.BORDER_DEFAULT))
            @@ ("font-family" :> AppFonts.DEFAULT_FAMILY)
            @@ ("font-size" :> AppFonts.DEFAULT_SIZE)),
          Rule("QMenuBar::item", "",
               ("padding" :> <<"4px", "8px">>)
            @@ ("background-color" :> "transparent")
            @@ ("margin" :> <<"0px">>)),
          Rule("QMenuBar::item", "selected",
               ("background-color" :> AppColors.SELECTION_MENU)
            @@ ("color" :> AppColors.SELECTION_TEXT)),
          Rule("QMenuBar::item", "pressed",
               ("background-color" :> AppColors.BUTTON_PRESSED)),
          Rule("QMenu", "",
               ("background-color" :> AppColors.BACKGROUND_MENU)
            @@ ("color" :> AppColors.TEXT_MENU)
            @@ ("border" :> Border(AppDimensions.BORDER_WIDTH_STANDARD, AppColors.BORDER_DEFAULT))
            @@ ("font-family" :> AppFonts.DEFAULT_FAMILY)
            @@ ("font-size" :> AppFonts.DEFAULT_SIZE)
            @@ ("padding" :> <<"2px">>)),
          Rule("QMenu::item", "",
               ("padding" :> <<"4px", "16px">>)
            @@ ("margin" :> <<"1px">>)),
          Rule("QMenu::item", "selected",
               ("background-color" :> AppColors.SELECTION_MENU)
            @@ ("color" :> AppColors.SELECTION_TEXT)),
          Rule("QMenu::separator", "",
               ("height" :> "1px")
            @@ ("background-color" :> AppColors.BORDER_LIGHT)
            @@ ("margin" :> <<"2px", "4px">>)),
          Rule("QStatusBar", "",
               ("background-color" :> AppColors.BACKGROUND_LIGHT)
            @@ ("color" :> AppColors.TEXT_DEFAULT)
            @@ ("border-top" :> Border(AppDimensions.BORDER_WIDTH_STANDARD, AppColors.BORDER_DEFAULT))
            @@ ("font-family" :> AppFonts.DEFAULT_FAMILY)
            @@ ("font-size" :> AppFonts.DEFAULT_SIZE)),
          Rule("QStatusBar::item", "",
               ("border" :> "none")) >>

\* the setStyleSheet calls on the application that a run is followed for
MaxInstalls == 2

\* an apply_global_stylesheet() that takes the style sheet off again when the
\* application already has one
apply_global_stylesheet_toggle ==
    /\ app.instance
    /\ app.installs < MaxInstalls
    /\ app' = [app EXCEPT !.styleSheet = IF app.styleSheet = << >> THEN global_style ELSE << >>,
                          !.installs = @ + 1]
    /\ raised' = None
    /\ UNCHANGED <<tables, widget, lastCall, invoked, thread, panel>>

\* an apply_global_stylesheet() that adds its sheet to the one the application
\* carries already
apply_global_stylesheet_append ==
    /\ app.instance
    /\ app.installs < MaxInstalls
    /\ app' = [app EXCEPT !.styleSheet = @ \o global_style, !.installs = @ + 1]
    /\ raised' = None
    /\ UNCHANGED <<tables, widget, lastCall, invoked, thread, panel>>

\* ThemeManager.apply_global_stylesheet(app): builds the sheet and sets it on
\* the application, whatever the application carries already
apply_global_stylesheet ==
    /\ app.instance
    /\ app.installs < MaxInstalls
    /\ app' = [app EXCEPT !.styleSheet = global_style, !.installs = @ + 1]
    /\ raised' = None
    /\ UNCHANGED <<tables, widget, lastCall, invoked, thread, panel>>

-----------------------------------------------------------------------------
(* Icon renderer calls made directly by application code *)

\* the caller sees the value a call returned, or the exception it let escape
Completed(fn, args, outcome) ==
    IF outcome.raised # None
    THEN Raised(fn, args, outcome.raised)
    ELSE Returned(fn, args, outcome.value)

call_get_scaled_size(base_size, scale_factor) ==
    Returned("get_scaled_size", <<base_size, scale_factor>>,
             get_scaled_size(base_size, scale_factor))

call_create_svg_icon(svg_template, color, size, fault) ==
    Completed("create_svg_icon", <<svg_template, color, size>>,
              create_svg_icon(svg_template, color, size, fault))

call_create_combobox_arrow_icon(size, fault) ==
    Completed("create_combobox_arrow_icon", <<size>>, create_combobox_arrow_icon(size, fault))

call_create_checkbox_check_icon(size, fault) ==
    Completed("create_checkbox_check_icon", <<size>>, create_checkbox_check_icon(size, fault))

-----------------------------------------------------------------------------
(* Resolver calls issued by the threads of the application.  A call runs in  *)
(* steps between which the other thread may run: the caller enters the       *)
(* function, the function builds its table from the palette, the function    *)
(* looks up, formats and returns.  The locals of a call belong to its thread. *)

Threads == {"t1", "t2"}

\* the calls a thread issues
ThreadCalls ==
    { [fn |-> "get_semantic_color", args |-> <<t, el>>] :
          t \in {"success", "bogus"}, el \in {"border", "bogus"} }
    \cup { [fn |-> "notification", args |-> <<t>>] : t \in {"error", "bogus"} }
    \cup { [fn |-> "button", args |-> <<v>>] : v \in {"primary", "bogus"} }

\* a thread that is in no call and has returned from none
IdleThread ==
    [pc |-> "idle", fn |-> None, args |-> << >>, locals |-> << >>,
     result |-> None, alone |-> None, overlapped |-> FALSE]

\* the thread is inside a call
Busy(t) == thread[t].pc \in {"called", "built"}

\* another thread is inside a call
OthersBusy(t) == \E u \in Threads \ {t} : Busy(u)

\* what the call returns when it runs from entry to return with no other
\* thread running in between
RunAlone(fn, args) ==
    CASE fn = "get_semantic_color" -> get_semantic_color(args[1], args[2])
      [] fn = "notification"       -> notification(args[1])
      [] fn = "button"             -> button(args[1])

\* the thread enters a resolver function
thread_call(t, call) ==
    /\ thread[t].pc \in {"idle", "done"}
    /\ thread' = [thread EXCEPT ![t] =
                     [pc |-> "called", fn |-> call.fn, args |-> call.args, locals |-> << >>,
                      result |-> None, alone |-> RunAlone(call.fn, call.args),
                      overlapped |-> OthersBusy(t)]]
    /\ UNCHANGED <<tables, app, widget, lastCall, raised, invoked, panel>>

\* a function that parks the colour it is about to return in the palette's
\* info row while it builds its table
thread_build_shared(t) ==
    /\ thread[t].pc = "called"
    /\ thread' = [thread EXCEPT ![t].pc = "built",
                                ![t].locals = CASE thread[t].fn = "get_semantic_color" -> color_map
                                                [] thread[t].fn = "notification"       -> type_colors
                                                [] thread[t].fn = "button"             -> button_base,
                                ![t].overlapped = @ \/ OthersBusy(t)]
    /\ AppColors' = IF thread[t].fn = "get_semantic_color"
                    THEN [AppColors EXCEPT !.INFO_PRIMARY = thread[t].alone]
                    ELSE AppColors
    /\ UNCHANGED <<AppDimensions, AppFonts, Config, app, widget, lastCall, raised, invoked, panel>>

\* the function builds its local table: color_map in get_semantic_color,
\* type_colors in notification, base_style in button
thread_build(t) ==
    /\ thread[t].pc = "called"
    /\ thread' = [thread EXCEPT ![t].pc = "built",
                                ![t].locals = CASE thread[t].fn = "get_semantic_color" -> color_map
                                                [] thread[t].fn = "notification"       -> type_colors
                                                [] thread[t].fn = "button"             -> button_base,
                                ![t].overlapped = @ \/ OthersBusy(t)]
    /\ UNCHANGED <<tables, app, widget, lastCall, raised, invoked, panel>>

\* the function finishes on its local table and returns
thread_return(t) ==
    /\ thread[t].pc = "built"
    /\ thread' = [thread EXCEPT
           ![t].pc = "done",
           ![t].result =
               CASE thread[t].fn = "get_semantic_color" ->
                        color_map_get(thread[t].locals, thread[t].args[1], thread[t].args[2])
                 [] thread[t].fn = "notification" ->
                        notification_format(thread[t].locals, thread[t].args[1])
                 [] thread[t].fn = "button" ->
                        thread[t].locals \o button_variant(thread[t].args[1]),
           ![t].overlapped = @ \/ OthersBusy(t)]
    /\ UNCHANGED <<tables, app, widget, lastCall, raised, invoked, panel>>

-----------------------------------------------------------------------------
(* Specifications *)

Init ==
    /\ AppColors = AppColorsInit
    /\ AppDimensions = AppDimensionsInit
    /\ AppFonts = AppFontsInit
    /\ Config = ConfigInit
    /\ app \in Environments
    /\ widget = NoWidget
    /\ lastCall = [fn |-> None, args |-> << >>, result |-> None, raised |-> None]
    /\ raised = None
    /\ thread = [t \in Threads |-> IdleThread]
    /\ invoked = [clicked |-> FALSE, given |-> None, calls |-> {}]
    /\ panel = [buttons |-> << >>, clicked |-> 0, calls |-> << >>]

Factory ==
    \/ \E cb \in Callbacks, st \in StyleTypes, v \in Variants, e \in BOOLEAN :
           create_button(cb, st, v, e)
    \/ \E st \in LabelTypes : create_label(st)
    \/ \E o \in Orientations : create_separator(o)
    \/ \E n \in IconNames, t \in ToolTips, sz \in SizeTiers, f \in Faults :
           create_icon_button(n, t, sz, f)

IconRenderer ==
    \/ \E b \in BaseSizes, sf \in ScaleFactors : call_get_scaled_size(b, sf)
    \/ \E t \in Templates, c \in Colors, sz \in QSizes, f \in Faults :
           call_create_svg_icon(t, c, sz, f)
    \/ \E sz \in QSizes, f \in Faults : call_create_combobox_arrow_icon(sz, f)
    \/ \E sz \in QSizes, f \in Faults : call_create_checkbox_check_icon(sz, f)

Host ==
    \/ \E b \in BOOLEAN : setEnabled(b)
    \/ \E b \in BOOLEAN : setDown(b)
    \/ \E b \in BOOLEAN : setHover(b)
    \/ \E b \in BOOLEAN : setFocus(b)
    \/ destroy

Resolver ==
    \/ \E v \in Variants : call_button(v)
    \/ \E t \in SemanticTypes : call_notification(t)
    \/ \E t \in SemanticTypes : call_port_type_indicator(t)
    \/ \E o \in Orientations : call_separator(o)
    \/ \E t \in SemanticTypes, el \in Elements : call_get_semantic_color(t, el)

\* controls created by the factory and then used by the host
Next == Factory \/ Host

Spec == Init /\ [][Next]_vars

\* resolver calls interleaved with factory operations
NextResolve == Resolver \/ Factory \/ destroy

\* the icon renderer called directly, next to the factory operation that uses it
NextIcon ==
    \/ IconRenderer
    \/ \E n \in {"dropdown_arrow", "nonexistent_icon"}, sz \in SizeTiers, f \in Faults :
           create_icon_button(n, "", sz, f)
    \/ destroy

SpecIcon == Init /\ [][NextIcon]_vars

\* every kind of engine operation side by side, on a few inputs of each
NextEngine ==
    \/ apply_global_stylesheet
    \/ \E cb \in Callbacks, st \in {"standard", "icon"}, v \in {"primary", "bogus"}, e \in BOOLEAN :
           create_button(cb, st, v, e)
    \/ \E st \in LabelTypes : create_label(st)
    \/ \E n \in {"dropdown_arrow", "nonexistent_icon"}, sz \in {"small", "bogus"}, f \in {0, 3} :
           create_icon_button(n, "", sz, f)
    \/ \E v \in {"primary", "bogus"} : call_button(v)
    \/ \E t \in {"error", "bogus"} : call_notification(t)
    \/ \E t \in {"success"} : call_port_type_indicator(t)
    \/ \E t \in {"success", "bogus"}, el \in {"border", "bogus"} : call_get_semantic_color(t, el)
    \/ \E b \in {20}, sf \in {100, 125} : call_get_scaled_size(b, sf)
    \/ \E t \in {AppIcons.DROPDOWN_ARROW, StyledTemplate}, f \in {0, 2} :
           call_create_svg_icon(t, "#ff0000", <<16, 16>>, f)
    \/ \E f \in {0, 1} : call_create_combobox_arrow_icon(<<16, 16>>, f)
    \/ \E f \in {0, 4} : call_create_checkbox_check_icon(<<16, 16>>, f)
    \/ destroy

SpecEngine == Init /\ [][NextEngine]_vars

\* buttons that are created, enabled or disabled, clicked and destroyed
NextClick ==
    \/ \E cb \in ClickCallbacks, st \in StyleTypes, v \in {"default", "primary"}, e \in BOOLEAN :
           create_button(cb, st, v, e)
    \/ \E st \in LabelTypes : create_label(st)
    \/ \E n \in {"dropdown_arrow", "nonexistent_icon"}, t \in ToolTips, f \in {0, 1} :
           create_icon_button(n, t, "medium", f)
    \/ \E b \in BOOLEAN : setEnabled(b)
    \/ click
    \/ destroy

SpecClick == Init /\ [][NextClick]_vars

\* quick-baud buttons that are created, placed in the host's row and clicked
NextBaud ==
    \/ \E r \in QuickBaudRates, cb \in QuickBaudCallbacks : create_quick_baud_button(r, cb)
    \/ addWidget
    \/ \E i \in 1 .. MaxButtons : click_button(i)
    \/ destroy

SpecBaud == Init /\ [][NextBaud]_vars

\* two threads of the application inside resolver calls at the same time
NextThreads ==
    \/ \E t \in Threads, call \in ThreadCalls : thread_call(t, call)
    \/ \E t \in Threads : thread_build(t)
    \/ \E t \in Threads : thread_return(t)

SpecThreads == Init /\ [][NextThreads]_vars

SpecResolve == Init /\ [][NextResolve]_vars

-----------------------------------------------------------------------------
(* Properties *)

DeclaredVariants == {"default", "primary", "success", "danger"}
PaletteVariants == {"primary", "success", "danger"}
SemanticCategories == {"success", "warning", "error", "info"}
SemanticElements == {"primary", "background", "border"}

\* an enabled control that is not hovered, pressed or focused
Idle == [enabled |-> TRUE, hover |-> FALSE, pressed |-> FALSE, focus |-> FALSE]

IsIdle(w) == w.enabled /\ ~w.hover /\ ~w.pressed /\ ~w.focus

FromCreateButton(w) == w.cls = "QPushButton" /\ w.req.factory = "create_button"

FromCreateIconButton(w) == w.cls = "QPushButton" /\ w.req.factory = "create_icon_button"

\* the normal-state value of prop that the variant requested for w stands for:
\* the variant's override where the variant names a palette, else the base
\* value of the style applied to w
VariantNormal(w, prop) ==
    IF w.req.variant \in PaletteVariants
    THEN Cascade(button(w.req.variant), Idle, prop)
    ELSE Cascade(w.styleSheet, Idle, prop)

\* the :disabled rule of a style sheet
DisabledRule(sheet) == sheet[CHOOSE i \in 1..Len(sheet) : sheet[i].pseudo = "disabled"]

\* the cell of the 4x3 semantic table, in palette tokens
SemanticCell(category, element) ==
    CASE category = "success" /\ element = "primary"    -> AppColors.SUCCESS_PRIMARY
      [] category = "success" /\ element = "background" -> AppColors.SUCCESS_BACKGROUND
      [] category = "success" /\ element = "border"     -> AppColors.SUCCESS_BORDER
      [] category = "warning" /\ element = "primary"    -> AppColors.WARNING_PRIMARY
      [] category = "warning" /\ element = "background" -> AppColors.WARNING_BACKGROUND
      [] category = "warning" /\ element = "border"     -> AppColors.WARNING_BORDER
      [] category = "error" /\ element = "primary"      -> AppColors.ERROR_PRIMARY
      [] category = "error" /\ element = "background"   -> AppColors.ERROR_BACKGROUND
      [] category = "error" /\ element = "border"       -> AppColors.ERROR_BORDER
      [] category = "info" /\ element = "primary"       -> AppColors.INFO_PRIMARY
      [] category = "info" /\ element = "background"    -> AppColors.INFO_BACKGROUND
      [] category = "info" /\ element = "border"        -> AppColors.INFO_BORDER

\* the row a category string resolves to
ResolvedRow(category) == IF category \in SemanticCategories THEN category ELSE "info"

\* C1: a disabled standard button of any declared variant renders background
\* BACKGROUND_DISABLED and text TEXT_DISABLED under the cascade, whatever its
\* hover, pressed and focus flags are.
C1_DisabledOverridesAll ==
    ( /\ FromCreateButton(widget)
      /\ widget.req.style_type = "standard"
      /\ widget.req.variant \in DeclaredVariants
      /\ ~widget.enabled )
    => /\ Appearance(widget, "background-color") = AppColors.BACKGROUND_DISABLED
       /\ Appearance(widget, "color") = AppColors.TEXT_DISABLED

\* C2: every setEnabled toggle of a control made by create_button leaves the
\* applied style sheet as it was; a control toggled to disabled shows the
\* disabled sub-style, and a control toggled back to enabled (not hovered,
\* pressed or focused) shows the normal sub-style of the variant requested at
\* creation.
C2_ToggleRoundTrip ==
    [][ ( /\ FromCreateButton(widget)
          /\ FromCreateButton(widget')
          /\ widget'.req = widget.req
          /\ widget'.enabled # widget.enabled )
        => /\ widget'.styleSheet = widget.styleSheet
           /\ ~widget'.enabled =>
                \A p \in {"background-color", "color"} :
                    Appearance(widget', p) = DisabledRule(widget'.styleSheet).decl[p]
           /\ IsIdle(widget') =>
                \A p \in {"background-color", "color"} :
                    Appearance(widget', p) = VariantNormal(widget', p) ]_vars

\* C3: an enabled standard button in the normal sub-state resolves to
\* ACCENT_BLUE / TEXT_WHITE / ACCENT_BLUE for primary, SUCCESS_PRIMARY /
\* TEXT_WHITE / SUCCESS_BORDER for success and ERROR_PRIMARY / TEXT_WHITE /
\* ERROR_BORDER for danger (background / text / border colour).
C3_VariantNormalColours ==
    ( /\ FromCreateButton(widget)
      /\ widget.req.style_type = "standard"
      /\ IsIdle(widget) )
    => LET bg == Appearance(widget, "background-color")
           fg == Appearance(widget, "color")
           bd == Appearance(widget, "border").color
           v  == widget.req.variant
       IN  /\ v = "primary" =>
                bg = AppColors.ACCENT_BLUE /\ fg = AppColors.TEXT_WHITE /\ bd = AppColors.ACCENT_BLUE
           /\ v = "success" =>
                bg = AppColors.SUCCESS_PRIMARY /\ fg = AppColors.TEXT_WHITE /\ bd = AppColors.SUCCESS_BORDER
           /\ v = "danger" =>
                bg = AppColors.ERROR_PRIMARY /\ fg = AppColors.TEXT_WHITE /\ bd = AppColors.ERROR_BORDER

C3_Witness ==
    /\ FromCreateButton(widget)
    /\ widget.req.style_type = "standard"
    /\ widget.req.variant = "primary"
    /\ IsIdle(widget)
    /\ Appearance(widget, "background-color") = "#0078d7"

\* C4: for every style_type and every declared variant, the style sheet that
\* create_button applies has the normal-state background and text colour of the
\* requested variant.
C4_VariantHonouredForEverySize ==
    ( /\ FromCreateButton(widget)
      /\ widget.req.style_type \in StyleTypes
      /\ widget.req.variant \in DeclaredVariants )
    => \A p \in {"background-color", "color"} :
           Cascade(widget.styleSheet, Idle, p) = VariantNormal(widget, p)

\* what a resolver call returns in the current state
Resolve(fn, args) ==
    CASE fn = "button"              -> button(args[1])
      [] fn = "notification"        -> notification(args[1])
      [] fn = "port_type_indicator" -> port_type_indicator(args[1])
      [] fn = "separator"           -> separator(args[1])
      [] fn = "get_semantic_color"  -> get_semantic_color(args[1], args[2])

\* C5: whatever step follows a resolver call (a factory operation with its
\* icon rendering, the destruction of a control, another resolver call), the
\* same function called again with identical arguments after the step returns
\* the style description (or colour) the earlier call returned.
C5_HistoryIndependent ==
    [][ \A fn \in {lastCall.fn}, args \in {lastCall.args}, result \in {lastCall.result} :
            fn # None => Resolve(fn, args)' = result ]_vars

C5_Witness ==
    /\ lastCall.fn = "port_type_indicator"
    /\ lastCall.args = <<"warning">>
    /\ FromCreateIconButton(widget)
    /\ widget.icon # QIcon
    /\ lastCall.result = port_type_indicator("warning")

\* C6: a variant string outside the declared set falls back: button() returns
\* the style of "default", notification() and port_type_indicator() return the
\* style of "info", and create_label applies the standard label style.
C6_FallbackStyles ==
    /\ (lastCall.fn = "button" /\ lastCall.args[1] \notin DeclaredVariants)
         => lastCall.result = button("default")
    /\ (lastCall.fn = "notification" /\ lastCall.args[1] \notin SemanticCategories)
         => lastCall.result = notification("info")
    /\ (lastCall.fn = "port_type_indicator" /\ lastCall.args[1] \notin SemanticCategories)
         => lastCall.result = port_type_indicator("info")
    /\ ( /\ widget.cls = "QLabel"
         /\ widget.req.factory = "create_label"
         /\ widget.req.style_type \notin {"standard", "status"} )
         => widget.styleSheet = label

C6_Witness ==
    /\ lastCall.fn = "button"
    /\ lastCall.args = <<"bogus">>
    /\ Cascade(lastCall.result, Idle, "background-color") = AppColors.BUTTON_DEFAULT
    /\ widget.cls = "QLabel"
    /\ widget.req.style_type = "bogus"

\* C7: get_semantic_color returns a colour for every pair of strings; for a
\* recognised category and element it is that cell of the 4x3 table, and for
\* an unrecognised category with a recognised element it is the info row's
\* value for that element.
C7_SemanticTotal ==
    lastCall.fn = "get_semantic_color"
    => LET category == lastCall.args[1]
           element  == lastCall.args[2]
       IN  /\ lastCall.result \in { AppColors[k] : k \in DOMAIN AppColors }
           /\ (category \in SemanticCategories /\ element \in SemanticElements)
                => lastCall.result = SemanticCell(category, element)
           /\ (category \notin SemanticCategories /\ element \in SemanticElements)
                => lastCall.result = SemanticCell("info", element)

C7_Witness ==
    /\ lastCall.fn = "get_semantic_color"
    /\ lastCall.args = <<"bogus", "border">>
    /\ lastCall.result = "#005a9e"

\* C8: get_semantic_color with an unrecognised element returns the primary
\* colour of the row the category resolves to.
C8_UnknownElementIsRowPrimary ==
    (lastCall.fn = "get_semantic_color" /\ lastCall.args[2] \notin SemanticElements)
    => lastCall.result = SemanticCell(ResolvedRow(lastCall.args[1]), "primary")

\* C9: for every notification type string, the text colour, background and
\* border of notification(t) are get_semantic_color(t, "primary"),
\* get_semantic_color(t, "background") and get_semantic_color(t, "border");
\* "success" gives the success triple and an unrecognised type the info triple.
C9_NotificationMatchesSemantic ==
    lastCall.fn = "notification"
    => LET t    == lastCall.args[1]
           decl == lastCall.result[1].decl
       IN  /\ Len(lastCall.result) = 1
           /\ decl["color"] = get_semantic_color(t, "primary")
           /\ decl["background-color"] = get_semantic_color(t, "background")
           /\ decl["border"].color = get_semantic_color(t, "border")
           /\ t = "success" =>
                /\ decl["color"] = AppColors.SUCCESS_PRIMARY
                /\ decl["background-color"] = AppColors.SUCCESS_BACKGROUND
                /\ decl["border"].color = AppColors.SUCCESS_BORDER
           /\ t \notin SemanticCategories =>
                /\ decl["color"] = AppColors.INFO_PRIMARY
                /\ decl["background-color"] = AppColors.INFO_BACKGROUND
                /\ decl["border"].color = AppColors.INFO_BORDER

C9_Witness ==
    /\ lastCall.fn = "notification"
    /\ lastCall.args = <<"bogus">>
    /\ lastCall.result[1].decl["background-color"] = "#e5f1fb"

-----------------------------------------------------------------------------
(* Icon sizes and icon state sets *)

StandardBases == {16, 20, 24, 32}
StandardScales == {100, 125, 150, 200}
IconModes == {"Normal", "Active", "Selected", "Disabled"}

\* Python's round(n / d): the nearest integer, a tie going to the even one
round(n, d) ==
    LET q == n \div d
        r == n % d
    IN  IF 2 * r < d THEN q
        ELSE IF 2 * r > d THEN q + 1
        ELSE IF q % 2 = 0 THEN q ELSE q + 1

\* the density scale a get_scaled_size call works with, in ten-thousandths
EffectiveScale(scale_factor) ==
    IF app.instance /\ app.screen THEN scale_factor * app.devicePixelRatio
    ELSE scale_factor * 100

\* the modes under which an icon holds an image
ModesOf(icon) == { e.mode : e \in icon }

\* the most recent direct call was to fn and returned
ReturnedFrom(fn) == lastCall.fn = fn /\ lastCall.raised = None

\* C11: for a base size in {16, 20, 24, 32} and a density scale in {1.0, 1.25,
\* 1.5, 2.0}, get_scaled_size returns a square whose side is round(size * scale),
\* and the four state images create_svg_icon produces for a request all have
\* the requested size; so an icon button's four images and its icon size are
\* that square.
C11_StandardSizesExact ==
    /\ ( /\ lastCall.fn = "get_scaled_size"
         /\ lastCall.args[1] \in StandardBases
         /\ EffectiveScale(lastCall.args[2]) \in { 100 * d : d \in StandardScales } )
       => LET side == round(lastCall.args[1] * EffectiveScale(lastCall.args[2]), 10000)
          IN  lastCall.result = <<side, side>>
    /\ ( /\ ReturnedFrom("create_svg_icon") )
       => /\ ModesOf(lastCall.result) = IconModes
          /\ \A e \in lastCall.result : e.pixmap.size = lastCall.args[3]
    /\ ( /\ FromCreateIconButton(widget)
         /\ widget.icon # QIcon )
       => LET side == round(base_size_of(widget.req.size) * EffectiveScale(100), 10000)
          IN  /\ base_size_of(widget.req.size) \in StandardBases
              /\ widget.iconSize = <<side, side>>
              /\ ModesOf(widget.icon) = IconModes
              /\ \A e \in widget.icon : e.pixmap.size = <<side, side>>

\* a medium icon button on a 1.25 display carries four 25x25 images, and a
\* direct call scaled 24 to 30
C11_Witness ==
    /\ FromCreateIconButton(widget)
    /\ widget.req.size = "medium"
    /\ widget.iconSize = <<25, 25>>
    /\ Cardinality(widget.icon) = 4
    /\ lastCall.fn = "get_scaled_size"
    /\ lastCall.args = <<24, 100>>
    /\ lastCall.result = <<30, 30>>

\* the direct calls that hand an icon to their caller
IconCalls == {"create_svg_icon", "create_combobox_arrow_icon", "create_checkbox_check_icon"}

C13_BadTemplateRaisesTemplateError ==
    ( /\ lastCall.fn = "create_svg_icon"
      /\ lastCall.args[1] \in {PlainTemplate, BrokenTemplate} )
    => lastCall.raised = "TemplateError"

\* the size a direct icon call was asked for
RequestedSize == IF lastCall.fn = "create_svg_icon" THEN lastCall.args[3] ELSE lastCall.args[1]

\* C14: a call that renders an icon for a size whose side is zero or negative
\* lets SizeError escape, and no returned icon holds an image of such a size.
C14_NonPositiveSizeRaisesSizeError ==
    lastCall.fn \in IconCalls
    => /\ RequestedSize[1] <= 0 => lastCall.raised = "SizeError"
       /\ lastCall.raised = None
          => \A e \in lastCall.result : e.pixmap.size[1] > 0 /\ e.pixmap.size[2] > 0

\* the colour the image under a mode is instantiated with
StateColour(mode, requested) ==
    CASE mode = "Normal"   -> requested
      [] mode = "Active"   -> AppColorsInit.ICON_HOVER
      [] mode = "Selected" -> AppColorsInit.ICON_PRESSED
      [] mode = "Disabled" -> AppColorsInit.ICON_DISABLED

\* C15: the icon create_svg_icon(template, color, size) returns holds, under each
\* of the four modes, the image of that same template instantiated with: the
\* requested colour for Normal, ICON_HOVER for Active, ICON_PRESSED for Selected,
\* ICON_DISABLED for Disabled; the last three are the same for every requested
\* colour.
C15_StateColours ==
    ReturnedFrom("create_svg_icon")
    => /\ ModesOf(lastCall.result) = IconModes
       /\ \A e \in lastCall.result :
             /\ e.pixmap.svg = format(lastCall.args[1], StateColour(e.mode, lastCall.args[2]))
             /\ e.pixmap.svg.template = lastCall.args[1]
             /\ "color" \in fields(lastCall.args[1])
                => e.pixmap.svg.color = StateColour(e.mode, lastCall.args[2])

\* a registry template rendered in a colour that is none of the palette's icon
\* colours
C15_Witness ==
    /\ ReturnedFrom("create_svg_icon")
    /\ lastCall.args[1] = AppIcons.DROPDOWN_ARROW
    /\ lastCall.args[2] = "#ff0000"
    /\ \E e \in lastCall.result : e.mode = "Active" /\ e.pixmap.svg.color = "#0078d7"

\* the pixel base a size tier string stands for
TierBase(size) ==
    CASE size = "small"  -> 16
      [] size = "medium" -> 20
      [] size = "large"  -> 24
      [] size = "xlarge" -> 32
      [] OTHER           -> 20

\* C16: the icon of an icon button is sized from the pixel base of its tier
\* (small 16, medium 20, large 24, xlarge 32, any other string 20) scaled by the
\* display density, and its Normal image is drawn in ICON_DEFAULT.
C16_TierBaseAndColour ==
    ( /\ FromCreateIconButton(widget)
      /\ widget.icon # QIcon )
    => LET base == TierBase(widget.req.size)
       IN  /\ widget.iconSize = get_scaled_size(base, 100)
           /\ EffectiveScale(100) = 10000 => widget.iconSize = <<base, base>>
           /\ \A e \in widget.icon :
                 /\ e.pixmap.size = widget.iconSize
                 /\ e.mode = "Normal" => e.pixmap.svg.color = AppColorsInit.ICON_DEFAULT

\* an icon button of an unrecognised tier on a display of density 1.0
C16_Witness ==
    /\ FromCreateIconButton(widget)
    /\ widget.req.size = "bogus"
    /\ app.screen /\ app.devicePixelRatio = 100
    /\ widget.iconSize = <<20, 20>>
    /\ \E e \in widget.icon : e.mode = "Normal" /\ e.pixmap.svg.color = "#000000"

\* C17: no engine call lets an exception escape to the application: when
\* rendering the icon fails inside create_icon_button the caller still gets a
\* control, at worst without an icon, and a control that was handed out carries
\* its whole style sheet.
C17_NoFailureEscapes ==
    /\ raised = None
    /\ lastCall.raised = None
    /\ FromCreateIconButton(widget) => widget.styleSheet = icon_button

-----------------------------------------------------------------------------
(* The engine's own state *)

\* C18 as stated: once apply_global_stylesheet has installed the style sheet,
\* no later step, a second apply_global_stylesheet included, installs a style
\* sheet on the application again or removes the installed one.
C18_InstalledAtMostOnce ==
    [][ app.installs >= 1
        => /\ app'.installs = app.installs
           /\ app'.styleSheet = app.styleSheet ]_vars

\* C18: only apply_global_stylesheet sets the application's style sheet; every
\* call of it, the first and any later one, installs the same sheet, so once
\* installed the sheet never changes and is never removed.
C18_InstalledSheetStable ==
    [][ /\ app' # app
           => /\ app'.installs = app.installs + 1
              /\ app'.styleSheet = global_style
              /\ widget' = widget /\ lastCall' = lastCall
        /\ app.installs >= 1
           => /\ app.styleSheet = global_style
              /\ app'.styleSheet = app.styleSheet ]_vars

\* the style sheet was installed a second time, with a control live
C18_Witness ==
    /\ app.installs = 2
    /\ app.styleSheet = global_style
    /\ widget.cls # None
    /\ lastCall.fn # None

\* C19: whatever resolver, icon renderer and factory operations have run, the
\* palette, font, dimension and configuration tables, which are all the state
\* the engine owns, have their initial values; none of them holds a control.
C19_TablesUnchanged ==
    /\ AppColors = AppColorsInit
    /\ AppFonts = AppFontsInit
    /\ AppDimensions = AppDimensionsInit
    /\ Config = ConfigInit
    /\ tables = <<AppColorsInit, AppDimensionsInit, AppFontsInit, ConfigInit>>

\* a primary button is live after a direct icon renderer call, with the
\* application style sheet installed
C19_Witness ==
    /\ FromCreateButton(widget)
    /\ widget.req.variant = "primary"
    /\ lastCall.fn \in IconCalls
    /\ app.installs = 1

-----------------------------------------------------------------------------
(* Callbacks *)

\* the slots a button made by create_button for this callback has on clicked
Bound(callback) == IF callback # None THEN {callback} ELSE {}

\* C20: create_button returns a button whose enabled flag is the requested one
\* and whose clicked signal is connected to the callback exactly when one was
\* given; and in any run of creations and clicks, a click runs just the callback
\* the clicked button was created with, and nothing when it was created without.
C20_ClickRunsOwnCallback ==
    [][ /\ ( widget.cls = None /\ FromCreateButton(widget') )
           => /\ widget'.enabled = widget'.req.enabled
              /\ widget'.clicked = Bound(widget'.req.callback)
        /\ invoked' # invoked
           => /\ invoked'.given = Get(widget.req, "callback", None)
              /\ invoked'.calls = widget.clicked
        /\ invoked'.calls = Bound(invoked'.given) ]_vars

\* a button created disabled with on_stop was enabled and clicked, after a click
\* on another button ran on_start
C20_Witness ==
    /\ FromCreateButton(widget)
    /\ ~widget.req.enabled
    /\ widget.req.callback = "on_stop"
    /\ invoked = [clicked |-> TRUE, given |-> "on_stop", calls |-> {"on_stop"}]

\* a click on a button created without a callback ran nothing
C20_WitnessNoCallback ==
    /\ FromCreateButton(widget)
    /\ widget.req.callback = None
    /\ invoked = [clicked |-> TRUE, given |-> None, calls |-> {}]

-----------------------------------------------------------------------------
(* Scaling by the display density *)

\* C21: for a positive base size and a positive density scale, standard or not,
\* get_scaled_size returns the square whose side is round(base * scale), the
\* nearest integer, not the truncated product.
C21_RoundsToNearest ==
    ( /\ lastCall.fn = "get_scaled_size"
      /\ lastCall.args[1] > 0
      /\ EffectiveScale(lastCall.args[2]) > 0 )
    => LET side == round(lastCall.args[1] * EffectiveScale(lastCall.args[2]), 10000)
       IN  lastCall.result = <<side, side>>

\* the display density can be read: an application instance with a primary screen
DensityAvailable == app.instance /\ app.screen

\* C22: without an application instance or without a primary screen,
\* get_scaled_size works with density 1.0, so get_scaled_size(base) is the
\* square of side base; with both, the display density multiplies the caller's
\* scale factor, once.
C22_DensityDefaultsToOne ==
    /\ lastCall.fn = "get_scaled_size"
       => LET base == lastCall.args[1]
              scale_factor == lastCall.args[2]
              side == IF DensityAvailable
                      THEN int(base * scale_factor * app.devicePixelRatio, 10000)
                      ELSE int(base * scale_factor, 100)
          IN  /\ lastCall.result = <<side, side>>
              /\ (~DensityAvailable /\ scale_factor = 100) => lastCall.result = <<base, base>>
    /\ ( FromCreateIconButton(widget) /\ widget.icon # QIcon /\ ~DensityAvailable )
       => widget.iconSize = <<TierBase(widget.req.size), TierBase(widget.req.size)>>

\* an application without a primary screen: a direct call for base 24 and an
\* icon button of the small tier
C22_Witness ==
    /\ app.instance /\ ~app.screen
    /\ lastCall.fn = "get_scaled_size"
    /\ lastCall.args = <<24, 100>>
    /\ lastCall.result = <<24, 24>>
    /\ FromCreateIconButton(widget)
    /\ widget.iconSize = <<16, 16>>

-----------------------------------------------------------------------------
(* Separators *)

FromCreateSeparator(w) == w.cls = "QFrame" /\ w.req.factory = "create_separator"

KnownOrientations == {"horizontal", "vertical"}

\* C23: an orientation string that is neither "horizontal" nor "vertical" falls
\* back to the default orientation: AppStyles.separator returns the style it
\* returns for "horizontal", and create_separator builds a horizontal line.
C23_UnknownOrientationIsHorizontal ==
    /\ ( lastCall.fn = "separator" /\ lastCall.args[1] \notin KnownOrientations )
       => lastCall.result = separator("horizontal")
    /\ ( FromCreateSeparator(widget) /\ widget.req.orientation \notin KnownOrientations )
       => /\ widget.frameShape = "HLine"
          /\ widget.styleSheet = separator("horizontal")

\* C29: a separator made by create_separator has the horizontal-line shape
\* exactly when it carries the horizontal separator style, and the
\* vertical-line shape exactly when it carries the vertical one, whatever the
\* orientation string was.
C29_ShapeAgreesWithStyle ==
    FromCreateSeparator(widget)
    => /\ widget.frameShape \in {"HLine", "VLine"}
       /\ widget.frameShape = "HLine" <=> widget.styleSheet = separator("horizontal")
       /\ widget.frameShape = "VLine" <=> widget.styleSheet = separator("vertical")

\* a separator made for an unrecognised orientation, disabled by its host
C29_Witness ==
    /\ FromCreateSeparator(widget)
    /\ widget.req.orientation = "bogus"
    /\ widget.frameShape = "VLine"
    /\ ~widget.enabled

-----------------------------------------------------------------------------
(* Icon lookup *)

\* the icon identifiers without their letter case
lower(s) ==
    CASE s \in {"dropdown_arrow", "Dropdown_Arrow"}     -> "dropdown_arrow"
      [] s = "CHECKBOX_CHECK"                           -> "checkbox_check"
      [] s \in {"nonexistent_icon", "Nonexistent_Icon"} -> "nonexistent_icon"
      [] s = ""                                         -> ""

\* the templates registered under an identifier, letter case aside
Registered(folded) ==
    CASE folded = "dropdown_arrow" -> {AppIcons.DROPDOWN_ARROW}
      [] folded = "checkbox_check" -> {AppIcons.CHECKBOX_CHECK}
      [] OTHER                     -> {}

\* the templates the images of an icon were drawn from
TemplatesOf(icon) == { e.pixmap.svg.template : e \in icon }

\* C24: the icon an icon button carries depends on its identifier only up to
\* letter case: identifiers that differ in case alone give the same template,
\* or are all unknown and give no icon.
C24_LookupIgnoresCase ==
    FromCreateIconButton(widget)
    => /\ TemplatesOf(widget.icon) = Registered(lower(widget.req.icon_name))
       /\ \A other \in IconNames :
             lower(other) = lower(widget.req.icon_name)
             => Registered(lower(other)) = TemplatesOf(widget.icon)

\* a button whose identifier is written in mixed case carries the arrow
C24_Witness ==
    /\ FromCreateIconButton(widget)
    /\ widget.req.icon_name = "Dropdown_Arrow"
    /\ TemplatesOf(widget.icon) = {"svg:dropdown_arrow{color}"}

-----------------------------------------------------------------------------
(* Variant overrides under the cascade *)

SubStates == {"normal", "hover", "pressed"}

\* the pseudo-state a rule for the sub-state selects on
PseudoOf(s) == IF s = "normal" THEN "" ELSE s

\* the sub-state an enabled control is in: pressed while held down, hover while
\* only pointed at, normal when neither and not focused
InSubState(w, s) ==
    /\ w.enabled
    /\ CASE s = "normal"  -> IsIdle(w)
          [] s = "hover"   -> w.hover /\ ~w.pressed
          [] s = "pressed" -> w.pressed

\* the places in button(v) of the rules the variant adds for a sub-state
OverrideRules(v, s) ==
    { i \in 1..Len(button(v)) : i > Len(button_base) /\ button(v)[i].pseudo = PseudoOf(s) }

\* C25: for an enabled standard button of variant primary, success or danger in
\* a sub-state for which the variant has a rule, every property that rule sets
\* is decided by that rule: the cascade resolves it to the variant's value, and
\* no rule of the base style decides it.
C25_OverridesReplaceBase ==
    ( /\ FromCreateButton(widget)
      /\ widget.req.style_type = "standard"
      /\ widget.req.variant \in PaletteVariants )
    => \A s \in SubStates : \A i \in OverrideRules(widget.req.variant, s) :
          InSubState(widget, s)
          => \A prop \in DOMAIN button(widget.req.variant)[i].decl :
                /\ Appearance(widget, prop) = button(widget.req.variant)[i].decl[prop]
                /\ Winner(widget.styleSheet, widget, prop) > Len(button_base)
                /\ Winner(widget.styleSheet, widget, prop) = i

\* a focused, hovered success button: its border is the variant's, not the
\* thick focus border of the base
C25_Witness ==
    /\ FromCreateButton(widget)
    /\ widget.req.style_type = "standard"
    /\ widget.req.variant = "success"
    /\ widget.enabled /\ widget.hover /\ widget.focus /\ ~widget.pressed
    /\ Appearance(widget, "border") = Border(1, "#0e5a0e")

\* the hover background a variant without a pressed rule defines
VariantHover(v) == IF v = "success" THEN AppColorsInit.SUCCESS_BORDER ELSE AppColorsInit.ERROR_BORDER

\* C28: an enabled standard button of variant success or danger that is hovered
\* and pressed at once resolves to the variant's hover background (SUCCESS_BORDER
\* or ERROR_BORDER); pressed without hover it resolves to the base BUTTON_PRESSED
\* background; the text colour is TEXT_WHITE in both.
C28_HoverOutranksBasePressed ==
    ( /\ FromCreateButton(widget)
      /\ widget.req.style_type = "standard"
      /\ widget.req.variant \in {"success", "danger"}
      /\ widget.enabled
      /\ widget.pressed )
    => /\ widget.hover
          => /\ Appearance(widget, "background-color") = VariantHover(widget.req.variant)
             /\ widget.styleSheet[Winner(widget.styleSheet, widget, "background-color")].pseudo = "hover"
       /\ ~widget.hover
          => Appearance(widget, "background-color") = AppColorsInit.BUTTON_PRESSED
       /\ Appearance(widget, "color") = AppColorsInit.TEXT_WHITE

\* a danger button that is hovered and pressed renders ERROR_BORDER
C28_Witness ==
    /\ FromCreateButton(widget)
    /\ widget.req.style_type = "standard"
    /\ widget.req.variant = "danger"
    /\ widget.enabled /\ widget.hover /\ widget.pressed
    /\ Appearance(widget, "background-color") = "#b4161c"

-----------------------------------------------------------------------------
(* Concurrent resolver calls *)

\* C26: however the steps of two threads' style-resolver and semantic-colour
\* calls interleave, a call that has returned returned what the same call
\* returns when it runs alone, and no step has written the shared tables.
C26_InterleavedCallsAsAlone ==
    /\ \A t \in Threads :
          thread[t].pc = "done"
          => /\ thread[t].result = thread[t].alone
             /\ thread[t].result = RunAlone(thread[t].fn, thread[t].args)
    /\ tables = <<AppColorsInit, AppDimensionsInit, AppFontsInit, ConfigInit>>

\* a notification call has returned in one thread after the other thread ran
\* inside a get_semantic_color call during it
C26_Witness ==
    /\ thread["t1"].pc = "done"
    /\ thread["t1"].fn = "notification"
    /\ thread["t1"].overlapped
    /\ thread["t2"].pc = "built"
    /\ thread["t2"].fn = "get_semantic_color"
    /\ thread["t2"].overlapped

-----------------------------------------------------------------------------
(* Quick-baud buttons *)

\* C27: whichever button of the quick-baud row was clicked last, and whatever
\* was created or clicked before or after it was made, the click made exactly
\* one call, to the callback the button was created with, and its only
\* argument was the rate string that button was created with
C27_ClickPassesOwnRate ==
    panel.clicked # 0 =>
        LET btn == panel.buttons[panel.clicked]
        IN  panel.calls = << [callback |-> btn.req.callback, args |-> <<btn.req.rate>>] >>

\* the first button of a full row is clicked after a button with another rate
\* was created, and the callback received the first button's rate
C27_Witness ==
    /\ Len(panel.buttons) = MaxButtons
    /\ panel.clicked = 1
    /\ panel.buttons[MaxButtons].req.rate # panel.buttons[1].req.rate
    /\ Len(panel.calls) = 1
    /\ panel.calls[1].args = <<panel.buttons[1].req.rate>>
    /\ panel.buttons[1].fixedWidth = 50
    /\ panel.buttons[1].styleSheet = button_compact

-----------------------------------------------------------------------------
(* The application style sheet *)

\* C30: a call of apply_global_stylesheet on an application that already
\* carries the sheet leaves the installed sheet as it was, which is the sheet
\* the first call installed; and a step that is not a call of
\* apply_global_stylesheet (a resolver call, an icon renderer call, a factory
\* call) leaves the application's style sheet as it was, installed or not.
C30_IdempotentAndIsolated ==
    [][ /\ app'.installs = 1 => app'.styleSheet = global_style
        /\ (app.installs >= 1 /\ app'.installs = app.installs + 1)
               => app'.styleSheet = app.styleSheet
        /\ app'.installs = app.installs => app'.styleSheet = app.styleSheet ]_vars

\* the sheet was installed twice and is the sheet of a single call, after an
\* icon renderer call and with a label the factory made live
C30_Witness ==
    /\ app.installs = MaxInstalls
    /\ app.styleSheet = global_style
    /\ lastCall.fn = "create_svg_icon"
    /\ widget.cls = "QLabel"

=============================================================================
